---------------------------- MODULE Spec2Model ----------------------------
(***************************************************************************)
(* Model of squidward's numeric utilities (squidward/utils.py) and of the  *)
(* RBF kernel factory (squidward/Kernels/Distance.py).                     *)
(*                                                                         *)
(* Numbers.  Floating-point values are modelled by exact rationals         *)
(* <<numerator, denominator>> in lowest terms with a positive denominator. *)
(* Input matrices hold small integers, for which the LAPACK routines used  *)
(* by numpy detect singularity exactly.  Linear algebra is written out in  *)
(* closed form for matrices of order at most 2 (Dims).                     *)
(***************************************************************************)
EXTENDS Integers, Sequences, FiniteSets, TLC

(***************************************************************************)
(* Bounds of the model.                                                    *)
(***************************************************************************)
MaxEntry == 1
MaxVal == 1
MaxLen == 2
MaxParam == 2
MaxPoints == 2

Dims == {1, 2}
Entries == -1 .. MaxEntry

(***************************************************************************)
(* Exact rational arithmetic standing for float64 arithmetic.              *)
(***************************************************************************)
Abs(x) == IF x < 0 THEN -x ELSE x

RECURSIVE GCD(_, _)
GCD(a, b) == IF b = 0 THEN a ELSE GCD(b, a % b)

Rat(n, d) ==
    LET g == GCD(Abs(n), Abs(d))
        s == IF d < 0 THEN -1 ELSE 1
    IN  <<(s * n) \div g, (s * d) \div g>>

RZero == <<0, 1>>
ROne == <<1, 1>>
RInt(n) == <<n, 1>>
RAdd(x, y) == Rat(x[1] * y[2] + y[1] * x[2], x[2] * y[2])
RSub(x, y) == Rat(x[1] * y[2] - y[1] * x[2], x[2] * y[2])
RMul(x, y) == Rat(x[1] * y[1], x[2] * y[2])
RDiv(x, y) == Rat(x[1] * y[2], x[2] * y[1])
RNeg(x) == <<-x[1], x[2]>>
RAbs(x) == <<Abs(x[1]), x[2]>>
RLess(x, y) == x[1] * y[2] < y[1] * x[2]

(***************************************************************************)
(* Matrices: a sequence of rows, each a sequence of rationals.             *)
(***************************************************************************)
NRows(A) == Len(A)
NCols(A) == Len(A[1])
IsSquare(A) == NRows(A) = NCols(A)

IntMatrix(r, c, f) == [i \in 1 .. r |-> [j \in 1 .. c |-> RInt(f[(i - 1) * c + j])]]

Matrices ==
    UNION { { IntMatrix(r, c, f) : f \in [1 .. r * c -> Entries] } : r \in Dims, c \in Dims }

SquareMatrices == { A \in Matrices : IsSquare(A) }

np_identity(n) == [i \in 1 .. n |-> [j \in 1 .. n |-> IF i = j THEN ROne ELSE RZero]]

Transpose(A) == [j \in 1 .. NCols(A) |-> [i \in 1 .. NRows(A) |-> A[i][j]]]

RECURSIVE DotSum(_, _, _, _, _)
DotSum(A, B, i, j, k) ==
    IF k = 0 THEN RZero
    ELSE RAdd(DotSum(A, B, i, j, k - 1), RMul(A[i][k], B[k][j]))

MatMul(A, B) ==
    [i \in 1 .. NRows(A) |-> [j \in 1 .. NCols(B) |-> DotSum(A, B, i, j, NCols(A))]]

Scale(A, q) == [i \in 1 .. NRows(A) |-> [j \in 1 .. NCols(A) |-> RMul(A[i][j], q)]]

RECURSIVE SumSquares(_, _)
SumSquares(A, n) ==
    IF n = 0 THEN RZero
    ELSE LET i == ((n - 1) \div NCols(A)) + 1
             j == ((n - 1) % NCols(A)) + 1
         IN  RAdd(SumSquares(A, n - 1), RMul(A[i][j], A[i][j]))

FrobeniusSq(A) == SumSquares(A, NRows(A) * NCols(A))

Det(A) ==
    IF NRows(A) = 1 THEN A[1][1]
    ELSE RSub(RMul(A[1][1], A[2][2]), RMul(A[1][2], A[2][1]))

Adjugate(A) ==
    IF NRows(A) = 1 THEN <<<<ROne>>>>
    ELSE << <<A[2][2], RNeg(A[1][2])>>, <<RNeg(A[2][1]), A[1][1]>> >>

Inverse(A) == Scale(Adjugate(A), RDiv(ROne, Det(A)))

(***************************************************************************)
(* Outcome of a call: a returned matrix, or a raised exception.            *)
(***************************************************************************)
Returned(M) == [kind |-> "matrix", val |-> M, err |-> ""]
Raised(e) == [kind |-> "error", val |-> <<>>, err |-> e]
NonFinite == [kind |-> "nonfinite", val |-> <<>>, err |-> ""]
NoResult == [kind |-> "none", val |-> <<>>, err |-> ""]

(***************************************************************************)
(* numpy / scipy routines used by utils.py, by what they compute.          *)
(***************************************************************************)
np_linalg_det(A) == Det(A)

\* np.linalg.inv: LinAlgError on a non-square or a singular matrix.
np_linalg_inv(A) ==
    IF ~IsSquare(A) THEN Raised("LinAlgError")
    ELSE IF Det(A) = RZero THEN Raised("LinAlgError")
    ELSE Returned(Inverse(A))

\* np.linalg.pinv: the Moore-Penrose pseudo-inverse, defined for every shape.
\* A non-zero matrix of order at most 2 that is not invertible has rank 1,
\* and the pseudo-inverse of a rank-1 matrix is its transpose over its
\* squared Frobenius norm.
np_linalg_pinv(A) ==
    IF FrobeniusSq(A) = RZero THEN Returned(Transpose(A))
    ELSE IF IsSquare(A) /\ Det(A) # RZero THEN Returned(Inverse(A))
    ELSE Returned(Scale(Transpose(A), RDiv(ROne, FrobeniusSq(A))))

\* np.dot / ndarray.dot of two 2-D arrays.
np_dot(A, B) == MatMul(A, B)

\* np.linalg.multi_dot of three arrays: the parenthesisation of least cost.
np_linalg_multi_dot(arrays) ==
    LET A == arrays[1]
        B == arrays[2]
        C == arrays[3]
        a0 == NRows(A)
        a1b0 == NCols(A)
        b1c0 == NCols(B)
        c1 == NCols(C)
        cost1 == a0 * b1c0 * (a1b0 + c1)
        cost2 == a1b0 * c1 * (a0 + b1c0)
    IN  IF cost1 < cost2 THEN np_dot(np_dot(A, B), C) ELSE np_dot(A, np_dot(B, C))

\* scipy.linalg.lu: A = P.L.U with partial pivoting; for an (m, n) input and
\* k = min(m, n), P is (m, m), L is (m, k) and U is (k, n).  The pivot is the
\* first entry of largest absolute value in the column.
la_lu(A) ==
    IF NRows(A) = 1
    THEN [p |-> np_identity(1), l |-> np_identity(1), u |-> A]
    ELSE LET swap == RLess(RAbs(A[1][1]), RAbs(A[2][1]))
             top == IF swap THEN A[2] ELSE A[1]
             bot == IF swap THEN A[1] ELSE A[2]
             m == IF top[1] = RZero THEN RZero ELSE RDiv(bot[1], top[1])
             P == IF swap THEN << <<RZero, ROne>>, <<ROne, RZero>> >> ELSE np_identity(2)
         IN  IF NCols(A) = 1
             THEN [p |-> P, l |-> << <<ROne>>, <<m>> >>, u |-> << <<top[1]>> >>]
             ELSE [p |-> P,
                   l |-> << <<ROne, RZero>>, <<m, ROne>> >>,
                   u |-> << top, <<RZero, RSub(bot[2], RMul(m, top[2]))>> >>]

\* np.linalg.cholesky reads the lower triangle only and fails unless the
\* symmetric matrix it stands for is positive definite.
LowerSym(A) == [i \in 1 .. NRows(A) |-> [j \in 1 .. NCols(A) |-> IF j <= i THEN A[i][j] ELSE A[j][i]]]

IsPosDef(S) ==
    /\ RLess(RZero, S[1][1])
    /\ RLess(RZero, Det(S))

\* sys.float_info.epsilon is 2^-EpsilonBits.
EpsilonBits == 52

CeilDiv(n, d) == (n + d - 1) \div d

\* 1.0 / np.linalg.cond(arr) >= epsilon, for the 2-norm condition number
\* smax/smin.  A matrix with a single singular value has condition 1, or
\* infinity when that value is 0.  For a 2x2 matrix with t = ||A||_F^2 and
\* D = |det A|, smax/smin <= K iff D # 0 and K.t <= (K^2 + 1).D, which for
\* the integer matrices of the model is D # 0 and t <= K.D.
WellConditioned(A) ==
    IF NRows(A) = 1 \/ NCols(A) = 1 THEN FrobeniusSq(A) # RZero
    ELSE LET t == FrobeniusSq(A)
             D == RAbs(Det(A))
             h == 2 ^ (EpsilonBits \div 2)
         IN  /\ D # RZero
             /\ CeilDiv(CeilDiv(t[1] * D[2], h), h) <= D[1] * t[2]


\* np.linalg.matrix_rank, for matrices of order at most 2.
np_linalg_matrix_rank(A) ==
    IF FrobeniusSq(A) = RZero THEN 0
    ELSE IF NRows(A) = 2 /\ NCols(A) = 2 /\ Det(A) # RZero THEN 2
    ELSE 1

\* np.diag of a 2-D array: its main diagonal.
np_diag(A) ==
    LET k == IF NRows(A) < NCols(A) THEN NRows(A) ELSE NCols(A)
    IN  [i \in 1 .. k |-> A[i][i]]

(***************************************************************************)
(* utils.py: is_invertible and check_valid_cov.                            *)
(***************************************************************************)
RetBool(b) == [kind |-> IF b THEN "True" ELSE "False", val |-> <<>>, err |-> ""]
RetNone == [kind |-> "None", val |-> <<>>, err |-> ""]

Strengths == {"cramer", "rank", "condition", "strict"}

is_invertible(A, strength) ==
    IF strength = "cramer"
    THEN IF ~IsSquare(A) THEN Raised("LinAlgError")
         ELSE RetBool(np_linalg_det(A) = RZero)
    ELSE IF strength = "rank"
    THEN RetBool(NRows(A) = NCols(A) /\ np_linalg_matrix_rank(A) = NRows(A))
    ELSE RetBool(WellConditioned(A))

\* check_valid_cov returning right after the warning.
check_valid_cov_return_after_warning(cov) ==
    LET warn == is_invertible(cov, "condition").kind # "True"
        var == np_diag(cov)
        negative == { i \in DOMAIN var : RLess(var[i], RZero) }
    IN  [warned |-> warn,
         ret |-> IF ~warn /\ negative # {} THEN Raised("Exception: Negative values in diagonal")
                 ELSE RetNone]

\* The outcome of check_valid_cov: whether the warning was issued, and the
\* return (None) or the exception.
check_valid_cov(cov) ==
    LET warn == is_invertible(cov, "condition").kind # "True"
        var == np_diag(cov)
        negative == { i \in DOMAIN var : RLess(var[i], RZero) }
    IN  [warned |-> warn,
         ret |-> IF negative # {} THEN Raised("Exception: Negative values in diagonal")
                 ELSE RetNone]

(***************************************************************************)
(* utils.py: class Invert.                                                 *)
(***************************************************************************)
MethodNames == {"inv", "pinv", "solve", "cholesky", "svd", "lu", "mp_lu"}
OtherNames == {"", "LU", "qr", "inverse"}

\* __init__ falling back to np.linalg.inv for an unknown method.
Invert_init_fallback(method) ==
    IF method = "pinv" THEN [inv |-> "np.linalg.pinv", ret |-> RetNone]
    ELSE IF method = "solve" THEN [inv |-> "self.solve", ret |-> RetNone]
    ELSE IF method = "cholesky" THEN [inv |-> "self.cholesky", ret |-> RetNone]
    ELSE IF method = "svd" THEN [inv |-> "self.svd", ret |-> RetNone]
    ELSE IF method = "lu" THEN [inv |-> "self.lu", ret |-> RetNone]
    ELSE IF method = "mp_lu" THEN [inv |-> "self.mp_lu", ret |-> RetNone]
    ELSE [inv |-> "np.linalg.inv", ret |-> RetNone]

\* __init__: the attribute self.inv after construction, "unbound" when the
\* constructor raised.
Invert_init(method) ==
    IF method = "inv" THEN [inv |-> "np.linalg.inv", ret |-> RetNone]
    ELSE IF method = "pinv" THEN [inv |-> "np.linalg.pinv", ret |-> RetNone]
    ELSE IF method = "solve" THEN [inv |-> "self.solve", ret |-> RetNone]
    ELSE IF method = "cholesky" THEN [inv |-> "self.cholesky", ret |-> RetNone]
    ELSE IF method = "svd" THEN [inv |-> "self.svd", ret |-> RetNone]
    ELSE IF method = "lu" THEN [inv |-> "self.lu", ret |-> RetNone]
    ELSE IF method = "mp_lu" THEN [inv |-> "self.mp_lu", ret |-> RetNone]
    ELSE [inv |-> "unbound", ret |-> Raised("Exception: Invalid inversion method argument.")]

solve(A) ==
    LET identity == np_identity(NCols(A))
    IN  IF ~IsSquare(A) THEN Raised("LinAlgError")
        ELSE IF Det(A) = RZero THEN Raised("LinAlgError")
        ELSE Returned(MatMul(Inverse(A), identity))

\* inv(L) for the Cholesky factor L of S = L.L^T; inv(L)^T.inv(L) is the
\* inverse of S.
cholesky(A) ==
    IF ~IsSquare(A) THEN Raised("LinAlgError")
    ELSE IF ~IsPosDef(LowerSym(A)) THEN Raised("LinAlgError")
    ELSE Returned(Inverse(LowerSym(A)))

\* svd with the reduced factors (full_matrices=False), whose products have
\* matching shapes for every input.
svd_reduced(A) ==
    IF ~IsSquare(A) THEN np_linalg_pinv(A)
    ELSE IF Det(A) = RZero THEN NonFinite
    ELSE Returned(Inverse(A))

\* u is (m, m), the singular values are min(m, n) many and vh is (n, n): the
\* two products have matching shapes only for a square input.  A singular
\* value of 0 (or of rounding size) is inverted without a check.
svd(A) ==
    IF ~IsSquare(A) THEN Raised("ValueError")
    ELSE IF Det(A) = RZero THEN NonFinite
    ELSE Returned(Inverse(A))

lu(A) ==
    LET f == la_lu(A)
        inv_u == np_linalg_inv(f.u)
        inv_l == np_linalg_inv(f.l)
        inv_p == np_linalg_inv(f.p)
    IN  IF inv_u.kind = "error" THEN inv_u
        ELSE IF inv_l.kind = "error" THEN inv_l
        ELSE IF inv_p.kind = "error" THEN inv_p
        ELSE Returned(np_dot(np_dot(inv_u.val, inv_l.val), inv_p.val))

\* mp_lu, first half: the list handed to pool.map.
mp_lu_items(A) ==
    LET f == la_lu(A)
    IN  <<f.u, f.l, f.p>>

\* pool.map handing the results back in the order the workers finished
\* (the behaviour of imap_unordered).
pool_map_unordered(done, order) ==
    LET failed == { k \in DOMAIN done : done[k].kind = "error" }
    IN  IF failed # {} THEN Raised("LinAlgError")
        ELSE Returned([k \in DOMAIN done |-> done[order[k]].val])

\* pool.map's return: the results in the order of the items, whatever the
\* order in which the workers finished; the exception of a failed task is
\* raised in the caller.
pool_map(done, order) ==
    LET failed == { k \in DOMAIN done : done[k].kind = "error" }
    IN  IF failed # {} THEN Raised("LinAlgError")
        ELSE Returned([k \in DOMAIN done |-> done[k].val])

\* mp_lu, second half: the product of the mapped inverses.
mp_lu_combine(mapped) ==
    IF mapped.kind = "error" THEN mapped
    ELSE Returned(np_linalg_multi_dot(mapped.val))

\* The algorithms that run within the calling process.
Apply(inv, A) ==
    CASE inv = "np.linalg.inv" -> np_linalg_inv(A)
      [] inv = "np.linalg.pinv" -> np_linalg_pinv(A)
      [] inv = "self.solve" -> solve(A)
      [] inv = "self.cholesky" -> cholesky(A)
      [] inv = "self.svd" -> svd(A)
      [] inv = "self.lu" -> lu(A)

\* __call__ switching to the pseudo-inverse on an ill-conditioned matrix.
Invert_call_switch(inv, A) ==
    LET warn == is_invertible(A, "condition").kind # "True"
    IN  [warned |-> warn, run |-> IF warn /\ inv # "self.mp_lu" THEN "np.linalg.pinv" ELSE inv]

\* __call__ up to the dispatch: the warning, and which bound algorithm runs.
Invert_call(inv, A) ==
    [warned |-> is_invertible(A, "condition").kind # "True", run |-> inv]


(***************************************************************************)
(* Arrays of any number of dimensions: a shape and the elements in         *)
(* row-major order.                                                        *)
(***************************************************************************)
Vals == 0 .. MaxVal

RECURSIVE Product(_)
Product(shape) == IF shape = <<>> THEN 1 ELSE Head(shape) * Product(Tail(shape))

Array(shape, data) == [shape |-> shape, data |-> data]

ArraysOfShape(shape) == { Array(shape, d) : d \in [1 .. Product(shape) -> Vals] }

Arrays1D == UNION { ArraysOfShape(<<n>>) : n \in 0 .. MaxLen }
Arrays2D == UNION { ArraysOfShape(<<r, c>>) : r \in Dims, c \in Dims }
Arrays3D == UNION { ArraysOfShape(<<a, b, c>>) : a \in Dims, b \in Dims, c \in Dims }
ArraysOther == ArraysOfShape(<<>>) \cup ArraysOfShape(<<1, 1, 1, 1>>)

RetArray(a) == [kind |-> "array", arr |-> a, err |-> ""]
RaisedArray(e) == [kind |-> "error", arr |-> Array(<<0>>, <<>>), err |-> e]

\* arr.reshape(-1, 1)
reshape_column(a) == Array(<<Len(a.data), 1>>, a.data)

(***************************************************************************)
(* utils.py: exactly_2d.                                                   *)
(***************************************************************************)
\* exactly_2d leaving every 2-D input as it is.
exactly_2d_keep_rows(a) ==
    IF Len(a.shape) = 1 THEN RetArray(reshape_column(a))
    ELSE IF Len(a.shape) = 2 THEN RetArray(a)
    ELSE IF Len(a.shape) = 3
    THEN IF a.shape[1] = 1 THEN RetArray(Array(<<a.shape[2], a.shape[3]>>, a.data))
         ELSE IF a.shape[3] = 1 THEN RetArray(Array(<<a.shape[1], a.shape[2]>>, a.data))
         ELSE RaisedArray("Exception: Invalid array shape.")
    ELSE RaisedArray("Exception: Invalid array shape.")

exactly_2d(a) ==
    IF Len(a.shape) = 1 THEN RetArray(reshape_column(a))
    ELSE IF Len(a.shape) = 2
    THEN IF a.shape[1] = 1 THEN RetArray(reshape_column(a))
         ELSE RetArray(a)
    ELSE IF Len(a.shape) = 3
    THEN IF a.shape[1] = 1 THEN RetArray(Array(<<a.shape[2], a.shape[3]>>, a.data))
         ELSE IF a.shape[3] = 1 THEN RetArray(Array(<<a.shape[1], a.shape[2]>>, a.data))
         ELSE RaisedArray("Exception: Invalid array shape.")
    ELSE RaisedArray("Exception: Invalid array shape.")

(***************************************************************************)
(* Kernels/Distance.py: RBF.  The helper it imports as atleast_2d is the   *)
(* 2-D coercion of utils.py, exactly_2d.                                   *)
(***************************************************************************)
\* The shape of an array of at most 2 dimensions, padded on the left with 1
\* as numpy's broadcasting does.
Shape2(a) ==
    IF Len(a.shape) = 0 THEN <<1, 1>>
    ELSE IF Len(a.shape) = 1 THEN <<1, a.shape[1]>>
    ELSE a.shape

Broadcastable(a, b) ==
    \A k \in 1 .. 2 : Shape2(a)[k] = Shape2(b)[k] \/ Shape2(a)[k] = 1 \/ Shape2(b)[k] = 1

BroadcastDim(m, n) == IF m = 1 THEN n ELSE m

\* Element (i, j) of array a seen under the broadcast shape.
Elem(a, i, j) ==
    LET sh == Shape2(a)
        ii == IF sh[1] = 1 THEN 1 ELSE i
        jj == IF sh[2] = 1 THEN 1 ELSE j
    IN  a.data[(ii - 1) * sh[2] + jj]

RECURSIVE SumSqDiff(_, _, _, _, _)
SumSqDiff(a, b, rows, cols, n) ==
    IF n = 0 THEN 0
    ELSE LET i == ((n - 1) \div cols) + 1
             j == ((n - 1) % cols) + 1
             e == Elem(a, i, j) - Elem(b, i, j)
         IN  SumSqDiff(a, b, rows, cols, n - 1) + e * e

\* np.sum((alpha - beta)**2)
np_sum_sq_diff(a, b) ==
    LET rows == BroadcastDim(Shape2(a)[1], Shape2(b)[1])
        cols == BroadcastDim(Shape2(a)[2], Shape2(b)[2])
    IN  SumSqDiff(a, b, rows, cols, rows * cols)

\* A kernel value scale * exp(expo), expo an exact rational: it equals scale
\* exactly when expo is 0.
KernelValue(scale, expo) == [kind |-> "value", scale |-> scale, expo |-> expo, err |-> ""]
KernelRaised(e) == [kind |-> "error", scale |-> 0, expo |-> RZero, err |-> e]
NoKernelValue == [kind |-> "none", scale |-> 0, expo |-> RZero, err |-> ""]

\* RBF accepting a lengthscale of zero.
RBF_accept_zero(l, var_k) ==
    IF l < 0 THEN "Exception: Lengthscale parameter must be greater than zero"
    ELSE IF var_k <= 0 THEN "Exception: Kernel variance parameter must be greater than zero"
    ELSE "dist"

\* RBF(l, var_k): the closure "dist", or the exception raised.
RBF(l, var_k) ==
    IF l <= 0 THEN "Exception: Lengthscale parameter must be greater than zero"
    ELSE IF var_k <= 0 THEN "Exception: Kernel variance parameter must be greater than zero"
    ELSE "dist"

\* The closure returned by RBF(l, var_k), applied to alpha and beta.
dist(l, var_k, alpha, beta) ==
    LET a == exactly_2d(alpha)
    IN  IF a.kind = "error" THEN KernelRaised(a.err)
        ELSE IF ~Broadcastable(a.arr, beta) THEN KernelRaised("ValueError")
        ELSE IF l = 0 THEN KernelRaised("ZeroDivisionError")
        ELSE LET d == np_sum_sq_diff(a.arr, beta)
                 amp == Rat(-1, 2 * l * l)
             IN  KernelValue(var_k, RMul(amp, RInt(d)))

(***************************************************************************)
(* utils.py: worker.                                                       *)
(***************************************************************************)
DistanceFunctions == {"squared", "absolute"}

\* The callables given as distance_function: two pure functions of two
\* points.
distance_function(f, a, b) ==
    IF f = "squared" THEN (a - b) * (a - b) ELSE Abs(a - b)

Idle == [pc |-> "idle", i |-> 0, alpha |-> 0, j |-> 0, output |-> <<>>, ret |-> <<>>]

\* output = np.full(m_len, 0.0)
worker_enter(i, alpha_element, m_len) ==
    [pc |-> "loop", i |-> i, alpha |-> alpha_element, j |-> 0,
     output |-> [k \in 1 .. m_len |-> 0], ret |-> <<>>]

\* One pass of the loop writing the first slot every time.
worker_iterate_first_slot(w, beta, f) ==
    IF w.j >= Len(beta) THEN [w EXCEPT !.pc = "raised"]
    ELSE [w EXCEPT !.output[1] = distance_function(f, w.alpha, beta[w.j + 1]),
                   !.j = w.j + 1]

\* One pass of the loop: output[j] = distance_function(alpha_element, beta[j]);
\* beta[j] raises IndexError past the end of beta.
worker_iterate(w, beta, f) ==
    IF w.j >= Len(beta) THEN [w EXCEPT !.pc = "raised"]
    ELSE [w EXCEPT !.output[w.j + 1] = distance_function(f, w.alpha, beta[w.j + 1]),
                   !.j = w.j + 1]

\* return i, output.reshape(-1)
worker_return(w) == [w EXCEPT !.pc = "returned", !.ret = <<w.i, w.output>>]

(***************************************************************************)
(* State.                                                                  *)
(***************************************************************************)
VARIABLES
    ipc,        \* Invert: "new", "ready", "failed", "mapping", "done"
    method,     \* Invert: the method string given to __init__
    inv,        \* Invert: self.inv
    arr,        \* Invert: the matrix given to __call__
    warned,     \* Invert: whether __call__ issued its warning
    result,     \* Invert: what __call__ returned or raised
    items,      \* pool.map: the items of the running map
    done,       \* pool.map: per item, the outcome once a worker finished it
    order,      \* pool.map: the items in the order the workers finished
    gop,        \* guard: the function called, "none" before the call
    garr,       \* guard: its matrix argument
    gstrength,  \* guard: its strength argument
    gwarned,    \* guard: whether a warning was issued
    gret,       \* guard: what the call returned or raised
    kpc,        \* kernel: "new", "failed", "built", "called"
    lengthscale, \* kernel: the argument l of RBF
    variance,   \* kernel: the argument var_k of RBF
    kbuilt,     \* kernel: what RBF returned or raised
    kalpha,     \* kernel: the argument alpha of dist
    kbeta,      \* kernel: the argument beta of dist
    kret,       \* kernel: what dist returned or raised
    eop,        \* exactly_2d: "none" before the call, "called" after
    earr,       \* exactly_2d: its argument
    eret,       \* exactly_2d: what it returned or raised
    jpc,        \* fan-out: "new" before the caller starts a row job, then "started"
    jbeta,      \* fan-out: the points beta
    jm,         \* fan-out: m_len
    jf,         \* fan-out: the distance function
    given,      \* fan-out: per pool process, the row index dispatched to it
    wk          \* fan-out: per pool process, the frame of its worker() call

ivars == <<ipc, method, inv, arr, warned, result, items, done, order>>
gvars == <<gop, garr, gstrength, gwarned, gret>>
kvars == <<kpc, lengthscale, variance, kbuilt, kalpha, kbeta, kret>>
evars == <<eop, earr, eret>>
wvars == <<jpc, jbeta, jm, jf, given, wk>>
vars == <<ivars, gvars, kvars, evars, wvars>>

Tasks == 1 .. 3

\* The pool processes that run worker() side by side.
NumProcs == 2
Procs == 1 .. NumProcs

Init ==
    /\ ipc = "new"
    /\ method = ""
    /\ inv = "unbound"
    /\ arr = <<>>
    /\ warned = FALSE
    /\ result = NoResult
    /\ items = <<>>
    /\ done = <<>>
    /\ order = <<>>
    /\ gop = "none"
    /\ garr = <<>>
    /\ gstrength = ""
    /\ gwarned = FALSE
    /\ gret = NoResult
    /\ kpc = "new"
    /\ lengthscale = 0
    /\ variance = 0
    /\ kbuilt = ""
    /\ kalpha = Array(<<0>>, <<>>)
    /\ kbeta = Array(<<0>>, <<>>)
    /\ kret = NoKernelValue
    /\ eop = "none"
    /\ earr = Array(<<0>>, <<>>)
    /\ eret = RaisedArray("")
    /\ jpc = "new"
    /\ jbeta = <<>>
    /\ jm = 0
    /\ jf = ""
    /\ given = [p \in Procs |-> 0]
    /\ wk = [p \in Procs |-> Idle]

(***************************************************************************)
(* Invert: construction, call, and the pool's part of mp_lu.               *)
(***************************************************************************)
Construct(m) ==
    /\ ipc = "new"
    /\ LET r == Invert_init(m)
       IN  /\ method' = m
           /\ inv' = r.inv
           /\ ipc' = IF r.ret.kind = "error" THEN "failed" ELSE "ready"
    /\ UNCHANGED <<arr, warned, result, items, done, order, gvars, kvars, evars, wvars>>

Call(A) ==
    /\ ipc = "ready"
    /\ LET c == Invert_call(inv, A)
       IN  /\ arr' = A
           /\ warned' = c.warned
           /\ IF c.run = "self.mp_lu"
              THEN /\ items' = mp_lu_items(A)
                   /\ done' = [k \in Tasks |-> NoResult]
                   /\ order' = <<>>
                   /\ ipc' = "mapping"
                   /\ UNCHANGED result
              ELSE /\ result' = Apply(c.run, A)
                   /\ ipc' = "done"
                   /\ UNCHANGED <<items, done, order>>
    /\ UNCHANGED <<method, inv, gvars, kvars, evars, wvars>>

\* A pool worker finishes item k: np.linalg.inv of that item.
PoolWorker(k) ==
    /\ ipc = "mapping"
    /\ done[k].kind = "none"
    /\ done' = [done EXCEPT ![k] = np_linalg_inv(items[k])]
    /\ order' = Append(order, k)
    /\ UNCHANGED <<ipc, method, inv, arr, warned, result, items, gvars, kvars, evars, wvars>>

\* pool.map returns once every item is finished; mp_lu multiplies and returns.
MpLuReturn ==
    /\ ipc = "mapping"
    /\ \A k \in Tasks : done[k].kind # "none"
    /\ result' = mp_lu_combine(pool_map(done, order))
    /\ ipc' = "done"
    /\ UNCHANGED <<method, inv, arr, warned, items, done, order, gvars, kvars, evars, wvars>>

NextInvert ==
    \/ ipc = "new" /\ \E m \in MethodNames \cup OtherNames : Construct(m)
    \/ ipc = "ready" /\ \E A \in Matrices : Call(A)
    \/ \E k \in Tasks : PoolWorker(k)
    \/ MpLuReturn

SpecInvert == Init /\ [][NextInvert]_vars

(***************************************************************************)
(* The stability guard called on its own.                                  *)
(***************************************************************************)
IsInvertibleCall(A, s) ==
    /\ gop = "none"
    /\ gop' = "is_invertible"
    /\ garr' = A
    /\ gstrength' = s
    /\ gret' = is_invertible(A, s)
    /\ UNCHANGED <<gwarned, ivars, kvars, evars, wvars>>

CheckValidCovCall(cov) ==
    /\ gop = "none"
    /\ LET c == check_valid_cov(cov)
       IN  /\ gwarned' = c.warned
           /\ gret' = c.ret
    /\ gop' = "check_valid_cov"
    /\ garr' = cov
    /\ UNCHANGED <<gstrength, ivars, kvars, evars, wvars>>

NextGuard ==
    \/ gop = "none" /\ \E A \in Matrices, s \in Strengths : IsInvertibleCall(A, s)
    \/ gop = "none" /\ \E cov \in Matrices : CheckValidCovCall(cov)

SpecGuard == Init /\ [][NextGuard]_vars


(***************************************************************************)
(* The kernel factory and the 2-D coercion.                                *)
(***************************************************************************)
Params == -1 .. MaxParam

RBFCall(l, v) ==
    /\ kpc = "new"
    /\ eop = "none"
    /\ lengthscale' = l
    /\ variance' = v
    /\ kbuilt' = RBF(l, v)
    /\ kpc' = IF RBF(l, v) = "dist" THEN "built" ELSE "failed"
    /\ UNCHANGED <<kalpha, kbeta, kret, ivars, gvars, evars, wvars>>

DistCall(a, b) ==
    /\ kpc = "built"
    /\ kalpha' = a
    /\ kbeta' = b
    /\ kret' = dist(lengthscale, variance, a, b)
    /\ kpc' = "called"
    /\ UNCHANGED <<lengthscale, variance, kbuilt, ivars, gvars, evars, wvars>>

Exactly2dCall(a) ==
    /\ eop = "none"
    /\ kpc = "new"
    /\ earr' = a
    /\ eret' = exactly_2d(a)
    /\ eop' = "called"
    /\ UNCHANGED <<ivars, gvars, kvars, wvars>>

NextKernel ==
    \/ kpc = "new" /\ eop = "none" /\ \E l \in Params, v \in Params : RBFCall(l, v)
    \/ kpc = "built" /\ \E a \in Arrays1D \cup Arrays2D, b \in Arrays1D \cup Arrays2D : DistCall(a, b)
    \/ kpc = "new" /\ eop = "none" /\ \E a \in Arrays1D \cup Arrays2D \cup Arrays3D \cup ArraysOther : Exactly2dCall(a)

SpecKernel == Init /\ [][NextKernel]_vars

(***************************************************************************)
(* The fan-out: the caller starts a row job, the pool processes run        *)
(* worker() for the rows dispatched to them, one loop pass at a time.      *)
(***************************************************************************)
Points == {0, 1}
RowIndices == {0, 1}

RECURSIVE SeqsUpTo(_)
SeqsUpTo(n) ==
    IF n = 0 THEN {<<>>}
    ELSE SeqsUpTo(n - 1) \cup [1 .. n -> Points]

StartJob(beta, m, f) ==
    /\ jpc = "new"
    /\ jbeta' = beta
    /\ jm' = m
    /\ jf' = f
    /\ jpc' = "started"
    /\ UNCHANGED <<given, wk, ivars, gvars, kvars, evars>>

Dispatch(p, i, a) ==
    /\ jpc = "started"
    /\ wk[p].pc = "idle"
    /\ given' = [given EXCEPT ![p] = i]
    /\ wk' = [wk EXCEPT ![p] = worker_enter(i, a, jm)]
    /\ UNCHANGED <<jpc, jbeta, jm, jf, ivars, gvars, kvars, evars>>

Iterate(p) ==
    /\ wk[p].pc = "loop"
    /\ wk[p].j < jm
    /\ wk' = [wk EXCEPT ![p] = worker_iterate(wk[p], jbeta, jf)]
    /\ UNCHANGED <<jpc, jbeta, jm, jf, given, ivars, gvars, kvars, evars>>

Return(p) ==
    /\ wk[p].pc = "loop"
    /\ wk[p].j = jm
    /\ wk' = [wk EXCEPT ![p] = worker_return(wk[p])]
    /\ UNCHANGED <<jpc, jbeta, jm, jf, given, ivars, gvars, kvars, evars>>

NextWorker ==
    \/ jpc = "new" /\ \E beta \in SeqsUpTo(MaxPoints), m \in 0 .. MaxPoints, f \in DistanceFunctions :
          StartJob(beta, m, f)
    \/ \E p \in Procs, i \in RowIndices, a \in Points : Dispatch(p, i, a)
    \/ \E p \in Procs : Iterate(p)
    \/ \E p \in Procs : Return(p)

SpecWorker == Init /\ [][NextWorker]_vars

(***************************************************************************)
(* Properties of Invert (SpecInvert).                                      *)
(***************************************************************************)
\* What the algorithm named m computes on A when run on its own, the three
\* inversions of mp_lu taken one after the other.
AlgorithmResult(m, A) ==
    CASE m = "inv" -> np_linalg_inv(A)
      [] m = "pinv" -> np_linalg_pinv(A)
      [] m = "solve" -> solve(A)
      [] m = "cholesky" -> cholesky(A)
      [] m = "svd" -> svd(A)
      [] m = "lu" -> lu(A)
      [] m = "mp_lu" ->
            LET it == mp_lu_items(A)
            IN  mp_lu_combine(pool_map([k \in Tasks |-> np_linalg_inv(it[k])], <<1, 2, 3>>))

IllConditioned(A) == is_invertible(A, "condition").kind = "False"

\* C1: for every method and every square input, a call runs the
\* condition-number check first; on an ill-conditioned matrix it only warns,
\* and the call still ends with the result of the algorithm selected at
\* construction (it neither aborts nor switches algorithm).
C1_WarnOnlyThenDispatch ==
    /\ (ipc \in {"mapping", "done"} /\ IsSquare(arr)) => (warned <=> IllConditioned(arr))
    /\ (ipc = "done" /\ IsSquare(arr)) => result = AlgorithmResult(method, arr)

\* C1 witness: a call on an ill-conditioned square matrix that warned and
\* still returned the selected algorithm's matrix.
C1_Witness ==
    /\ ipc = "done"
    /\ IsSquare(arr)
    /\ IllConditioned(arr)
    /\ warned
    /\ result.kind = "matrix"

\* C2: a method string outside the seven names makes construction fail and
\* binds no algorithm; each of the seven names binds the algorithm of that
\* name.
C2_ConstructionBindsOrFails ==
    ipc # "new" =>
        /\ method \notin {"inv", "pinv", "solve", "cholesky", "svd", "lu", "mp_lu"}
              => (ipc = "failed" /\ inv = "unbound")
        /\ method = "inv" => (ipc # "failed" /\ inv = "np.linalg.inv")
        /\ method = "pinv" => (ipc # "failed" /\ inv = "np.linalg.pinv")
        /\ method = "solve" => (ipc # "failed" /\ inv = "self.solve")
        /\ method = "cholesky" => (ipc # "failed" /\ inv = "self.cholesky")
        /\ method = "svd" => (ipc # "failed" /\ inv = "self.svd")
        /\ method = "lu" => (ipc # "failed" /\ inv = "self.lu")
        /\ method = "mp_lu" => (ipc # "failed" /\ inv = "self.mp_lu")

\* C2 witness: construction with the unknown name "LU" has failed.
C2_Witness ==
    /\ ipc = "failed"
    /\ method = "LU"
    /\ inv = "unbound"

\* C3, as claimed: for each of the seven methods a call on a non-square
\* matrix ends in an error and never returns a matrix.
C3_NonSquareAlwaysFails ==
    (ipc = "done" /\ ~IsSquare(arr)) => result.kind = "error"

\* C3, amended: a call on a non-square matrix ends in an error for the six
\* methods inv, solve, cholesky, svd, lu and mp_lu; for pinv it returns the
\* pseudo-inverse, a matrix of the transposed shape.
C3_NonSquareFailsExceptPinv ==
    (ipc = "done" /\ ~IsSquare(arr)) =>
        IF method = "pinv"
        THEN /\ result.kind = "matrix"
             /\ NRows(result.val) = NCols(arr)
             /\ NCols(result.val) = NRows(arr)
        ELSE result.kind = "error"

\* C3 witness: a call of the sequential LU method on a non-square matrix
\* that ended in an error.
C3_Witness ==
    /\ ipc = "done"
    /\ ~IsSquare(arr)
    /\ method = "lu"
    /\ result.kind = "error"

\* C4: mp_lu returns what lu returns on the same matrix, the product
\* inv(upper).inv(lower).inv(permutation); it returns only after all three
\* inversions have finished, in whatever order the workers finished them.
C4_ParallelLuEqualsSequentialLu ==
    /\ (ipc = "done" /\ inv = "self.mp_lu") => (result = lu(arr) /\ Len(order) = 3)
    /\ (ipc = "mapping" /\ \E k \in Tasks : done[k].kind = "none") => result = NoResult

\* C4 witness: mp_lu returned a matrix that is not symmetric although the
\* workers finished the items in the reverse of their order in the list.
C4_Witness ==
    /\ ipc = "done"
    /\ inv = "self.mp_lu"
    /\ order = <<3, 2, 1>>
    /\ result.kind = "matrix"
    /\ result.val # Transpose(result.val)

(***************************************************************************)
(* Properties of the stability guard (SpecGuard).                          *)
(***************************************************************************)
NegativeDiagonal(A) ==
    \E i \in 1 .. (IF NRows(A) < NCols(A) THEN NRows(A) ELSE NCols(A)) : A[i][i][1] < 0

\* C6: check_valid_cov raises its error for every matrix with a strictly
\* negative diagonal entry, ill-conditioned or not; for an ill-conditioned
\* matrix without a negative diagonal entry it only warns and returns.
C6_NegativeDiagonalFatalIllConditionedWarns ==
    gop = "check_valid_cov" =>
        /\ NegativeDiagonal(garr) => gret = Raised("Exception: Negative values in diagonal")
        /\ (~NegativeDiagonal(garr) /\ IllConditioned(garr)) => (gwarned /\ gret = RetNone)

\* C6 witness: an ill-conditioned matrix with a negative diagonal entry, for
\* which the warning was issued and the error raised.
C6_Witness ==
    /\ gop = "check_valid_cov"
    /\ NegativeDiagonal(garr)
    /\ IllConditioned(garr)
    /\ gwarned
    /\ gret.kind = "error"

\* C7, as claimed: is_invertible(matrix, 'cramer') returns true if and only
\* if the determinant of the (square) matrix is not zero.
C7_CramerTrueIffDetNonZero ==
    (gop = "is_invertible" /\ gstrength = "cramer" /\ IsSquare(garr)) =>
        /\ gret.kind \in {"True", "False"}
        /\ gret.kind = "True" <=> Det(garr) # RZero


(***************************************************************************)
(* Properties of the kernel factory and the 2-D coercion (SpecKernel).     *)
(***************************************************************************)
\* C8, as claimed: for lengthscale > 0 and varianceK > 0 and every point x,
\* 1-D points with differing coordinates included, kernel(x, x) is exactly
\* varianceK.
C8_KernelOfEqualPointsIsVariance ==
    (kpc = "called" /\ kalpha = kbeta) => kret = KernelValue(variance, RZero)

\* C9: RBF fails at construction exactly when lengthscale <= 0 or
\* varianceK <= 0, and otherwise returns the distance function; a call of
\* the distance function never raises a parameter error.
C9_ParametersCheckedAtConstructionOnly ==
    /\ kpc # "new" => (kpc = "failed" <=> (lengthscale <= 0 \/ variance <= 0))
    /\ kpc = "failed" => kbuilt # "dist"
    /\ kpc \in {"built", "called"} => kbuilt = "dist"
    /\ kpc = "called" => kret.err \in {"", "ValueError"}

\* C9 witness: construction with a positive lengthscale and a variance of
\* exactly zero has failed.
C9_Witness ==
    /\ kpc = "failed"
    /\ lengthscale > 0
    /\ variance = 0

\* C10, as claimed: exactly_2d returns shape (n, 1) for a 1-D input of
\* length n and returns every 2-D input unchanged, shape (1, n) included.
C10_TwoDimensionalUnchanged ==
    eop = "called" =>
        /\ Len(earr.shape) = 1 =>
              (eret.kind = "array" /\ eret.arr.shape = <<earr.shape[1], 1>>)
        /\ Len(earr.shape) = 2 => eret = RetArray(earr)

\* C10, amended: exactly_2d returns shape (n, 1) for a 1-D input of length
\* n, returns a 2-D input whose first dimension is not 1 unchanged, and
\* turns a 2-D input of shape (1, n) into shape (n, 1) with the same
\* elements in the same order.
C10_RowBecomesColumn ==
    eop = "called" =>
        /\ Len(earr.shape) = 1 =>
              eret = RetArray(Array(<<earr.shape[1], 1>>, earr.data))
        /\ (Len(earr.shape) = 2 /\ earr.shape[1] # 1) => eret = RetArray(earr)
        /\ (Len(earr.shape) = 2 /\ earr.shape[1] = 1) =>
              eret = RetArray(Array(<<earr.shape[2], 1>>, earr.data))

\* C10 witness: an input of shape (1, 2) came back with shape (2, 1).
C10_Witness ==
    /\ eop = "called"
    /\ earr.shape = <<1, 2>>
    /\ eret.kind = "array"
    /\ eret.arr.shape = <<2, 1>>

(***************************************************************************)
(* Properties of the fan-out worker (SpecWorker).                          *)
(***************************************************************************)
\* C5: worker(i, alpha, beta, m, f) with m the number of points of beta
\* returns (i, output) with i the dispatched index, output of exactly m
\* entries and output[j] = f(alpha, beta[j]) for every j, whatever the other
\* worker invocations do meanwhile.
C5_WorkerReturnsIndexAndRow ==
    \A p \in Procs :
        (wk[p].pc = "returned" /\ jm = Len(jbeta)) =>
            /\ wk[p].ret[1] = given[p]
            /\ Len(wk[p].ret[2]) = jm
            /\ \A j \in 1 .. jm :
                  wk[p].ret[2][j] = distance_function(jf, wk[p].alpha, jbeta[j])

\* C5 witness: two invocations with different indices and different points
\* alpha, both returned, over a beta of two points with differing distances.
C5_Witness ==
    /\ jm = 2
    /\ Len(jbeta) = 2
    /\ jbeta[1] # jbeta[2]
    /\ wk[1].pc = "returned"
    /\ wk[2].pc = "returned"
    /\ given[1] # given[2]
    /\ wk[1].alpha # wk[2].alpha


=============================================================================
